---- MODULE Spec2Model ----
(***************************************************************************)
(* State-machine model of src/App.tsx: the content store (data, the        *)
(* persisted snapshot), the edit session (editingData), the admin gate     *)
(* (isAdminOpen, isAuth, passInput), the asynchronous file reads and the   *)
(* thumbnail resolver.                                                     *)
(*                                                                         *)
(* JavaScript objects that the code mutates in place (CareerItem and       *)
(* WorkItem) live in `heap` and are held by reference; SiteData objects    *)
(* and arrays are only ever built fresh by the code (spreads, map, filter) *)
(* and are therefore modelled as values holding references to the items.   *)
(***************************************************************************)
EXTENDS Integers, Sequences, FiniteSets, TLC

VARIABLES
  pc,           \* "boot" (mounted, effect not yet run) | "running" | "crashed" | "thumb"
  storage,      \* localStorage['aeju_portfolio_data']: Absent or a JSON text (token sequence)
  heap,         \* reference -> CareerItem / WorkItem object
  data,         \* useState data
  editingData,  \* useState editingData
  isAdminOpen,  \* useState isAdminOpen
  isAuth,       \* useState isAuth
  passInput,    \* useState passInput
  pending,      \* FileReader reads in flight: the onloadend closures
  edits,        \* number of edit-session mutations performed so far in the run
  lastOp,       \* history: the handler that produced the current state
  committed,    \* history: <<the value the last successful saveToLocal wrote>>, <<>> if none
  thumbIn,      \* the WorkItem handed to getThumbnail
  thumbOut      \* the string getThumbnail returned

vars == <<pc, storage, heap, data, editingData, isAdminOpen, isAuth, passInput,
          pending, edits, lastOp, committed, thumbIn, thumbOut>>

-----------------------------------------------------------------------------
(* Bounds of the exploration *)

\* edit-session mutations (field edits, addWork, removeWork, uploads) per run
MaxEdits == 2
\* file reads in flight at the same time
MaxPending == 1
\* distinct millisecond readings Date.now() can return during the run
MaxTicks == 1
\* addWork and removeWork calls per run of SpecWorks
MaxListEdits == 3
\* length of the arbitrary snapshot texts SpecLoad starts from
MaxTextLen == 3

-----------------------------------------------------------------------------
(* Values *)

\* JavaScript null (reader.result of a failed read; JSON null)
NULL == "<null>"
\* no work item
None == "<none>"
\* getItem of a missing key returns null; like the empty text it is falsy
Absent == <<>>

\* the configured secret
Secret == "0818"
\* what the user can type into the key field: empty, partial, exact, longer, different
PassCandidates == {"", "081", "0818", "0819"}

\* what the user can type into the text fields of the editor
EditText == "edited"
\* what the user can type into a URL field
EditUrl == "https://example.com/a.png"
\* reader.result of a successful readAsDataURL
Base64 == "data:image/png;base64,AAAA"
\* Date.now() readings (milliseconds, rebased so that they stay small)
ClockBase == 1000
Clock == ClockBase .. (ClockBase + MaxTicks)

Range(s) == {s[i] : i \in DOMAIN s}

\* the entries whose fields the user edits: the first and the last of the list
EditIdx(arr) == {i \in DOMAIN arr : i = 1 \/ i = Len(arr)}

\* DEFAULT_DATA: the items are objects, held by reference
DefaultCareerRefs == <<1, 2, 3>>
DefaultWorkRefs == <<4, 5, 6, 7, 8, 9>>
DefaultRefs == Range(DefaultCareerRefs) \cup Range(DefaultWorkRefs)

DefaultCareer ==
  << [date |-> "2022 - 2025", title |-> "KCIJ", role |-> "news and documentary editing lead"],
     [date |-> "2021", title |-> "GCA", role |-> "planning and project lead"],
     [date |-> "2012 - 2017", title |-> "NH Bank", role |-> "banking operations"] >>

DefaultWorks ==
  << [id |-> 1, title |-> "Visual Archive_1", img |-> "", url |-> "https://www.youtube.com/watch?v=aqz-KE-bpKQ"],
     [id |-> 2, title |-> "Visual Archive_2", img |-> "", url |-> "https://www.youtube.com/watch?v=dQw4w9WgXcQ"],
     [id |-> 3, title |-> "Visual Archive_3", img |-> "", url |-> ""],
     [id |-> 4, title |-> "Visual Archive_4", img |-> "", url |-> ""],
     [id |-> 5, title |-> "Visual Archive_5", img |-> "", url |-> ""],
     [id |-> 6, title |-> "Visual Archive_6", img |-> "", url |-> ""] >>

\* the heap right after the module is evaluated: DEFAULT_DATA's items
DefaultHeap ==
  [r \in DefaultRefs |->
     IF r \in Range(DefaultCareerRefs)
     THEN DefaultCareer[r]
     ELSE DefaultWorks[r - Len(DefaultCareerRefs)]]

DEFAULT_DATA ==
  [profileImg |-> "https://images.unsplash.com/photo-1573496359142-b8d87734a5a2",
   bio |-> "default bio",
   career |-> DefaultCareerRefs,
   works |-> DefaultWorkRefs]

-----------------------------------------------------------------------------
(* The heap *)

\* a SiteData-shaped value (as opposed to whatever else JSON.parse may return)
IsSite(sd) == DOMAIN sd = {"profileImg", "bio", "career", "works"}

Refs(sd) == IF IsSite(sd) THEN Range(sd.career) \cup Range(sd.works) ELSE {}

\* the value a SiteData denotes: every reference replaced by the object it names
Value(sd, h) ==
  IF IsSite(sd)
  THEN [profileImg |-> sd.profileImg,
        bio |-> sd.bio,
        career |-> [i \in 1..Len(sd.career) |-> h[sd.career[i]]],
        works |-> [i \in 1..Len(sd.works) |-> h[sd.works[i]]]]
  ELSE sd

\* objects still reachable from the module constant, the state or a closure
Reachable(d, e, p) ==
  DefaultRefs \cup Refs(d) \cup Refs(e) \cup UNION {Refs(u.captured) : u \in p}

\* unreachable objects are dropped (they cannot be observed any more)
Gc(h, d, e, p) == [r \in (DOMAIN h \cap Reachable(d, e, p)) |-> h[r]]

\* the n lowest references not in use
RECURSIVE FreshRefs(_, _)
FreshRefs(used, n) ==
  IF n = 0 THEN <<>>
  ELSE LET r == CHOOSE q \in 1..(Cardinality(used) + 1) :
                  q \notin used /\ \A k \in 1..(q - 1) : k \in used
       IN <<r>> \o FreshRefs(used \cup {r}, n - 1)

-----------------------------------------------------------------------------
(* Rendering: a render that throws unmounts the application *)

\* JavaScript values JSON.parse can return
JUndefined == [k |-> "undefined"]
JNull == [k |-> "null"]
JStr(x) == [k |-> "str", s |-> x]
JNum(i) == [k |-> "num", n |-> i]
JArr(a) == [k |-> "arr", a |-> a]
JObj(o) == [k |-> "obj", o |-> o]

\* v[key]: undefined unless v is an object that has the key
Prop(v, key) == IF v.k = "obj" /\ key \in DOMAIN v.o THEN v.o[key] ELSE JUndefined

Truthy(v) ==
  ~ \/ v.k \in {"null", "undefined"}
    \/ (v.k = "str" /\ v.s = "")
    \/ (v.k = "num" /\ v.n = 0)

\* {value} as a React child: a plain object is rejected
RECURSIVE ChildOk(_)
ChildOk(v) ==
  \/ v.k \in {"null", "undefined", "str", "num"}
  \/ (v.k = "arr" /\ \A i \in 1..Len(v.a) : ChildOk(v.a[i]))

\* lines 259, 336-346, 379-403 when data is not a SiteData: data.bio,
\* data.career.map, data.works.map and getThumbnail(work) must not throw
JsRenderOk(v) ==
  /\ v.k # "null"
  /\ ChildOk(Prop(v, "bio"))
  /\ Prop(v, "career").k = "arr"
  /\ \A i \in 1..Len(Prop(v, "career").a) :
       LET job == Prop(v, "career").a[i]
       IN /\ job.k # "null"
          /\ ChildOk(Prop(job, "date")) /\ ChildOk(Prop(job, "title")) /\ ChildOk(Prop(job, "role"))
  /\ Prop(v, "works").k = "arr"
  /\ \A i \in 1..Len(Prop(v, "works").a) :
       LET w == Prop(v, "works").a[i]
       IN /\ w.k # "null"
          /\ (Truthy(Prop(w, "img")) \/ Prop(w, "url").k = "str")
          /\ ChildOk(Prop(w, "id")) /\ ChildOk(Prop(w, "title"))

\* lines 469-479 and 556-563: the editor calls startsWith on profileImg and on
\* every work's img; lines 379-388: the gallery calls url.match when img is falsy
RenderOk(d, e, h, open, auth) ==
  IF ~IsSite(d) THEN JsRenderOk(d.js)
  ELSE
  /\ \A i \in 1..Len(d.works) :
       LET w == h[d.works[i]] IN (w.img \in {"", NULL}) => w.url # NULL
  /\ (open /\ auth) =>
       /\ e.profileImg # NULL
       /\ \A i \in 1..Len(e.works) :
            LET w == h[e.works[i]] IN w.img # NULL /\ (w.img = "" => w.url # NULL)

\* the state React holds after a handler ran, and the render that follows
Update(d, e, h, p, open, auth, pass) ==
  /\ data' = d
  /\ editingData' = e
  /\ pending' = p
  /\ heap' = Gc(h, d, e, p)
  /\ isAdminOpen' = open
  /\ isAuth' = auth
  /\ passInput' = pass
  /\ pc' = IF RenderOk(d, e, h, open, auth) THEN "running" ELSE "crashed"

\* the reads of the session that just ended or was replaced are no longer live
MarkStale(p) == {[u EXCEPT !.live = FALSE] : u \in p}

Locked == pc = "running" /\ isAdminOpen /\ ~isAuth
Unlocked == pc = "running" /\ isAdminOpen /\ isAuth

-----------------------------------------------------------------------------
(* The admin gate *)

handleAdminTrigger ==
  /\ pc = "running"
  /\ ~isAdminOpen
  /\ Update(data, data, heap, MarkStale(pending), TRUE, isAuth, "")
  /\ lastOp' = "trigger"
  /\ UNCHANGED <<storage, edits, committed, thumbIn, thumbOut>>

setPassInput ==
  /\ Locked
  /\ \E v \in PassCandidates :
       Update(data, editingData, heap, pending, isAdminOpen, isAuth, v)
  /\ lastOp' = "type"
  /\ UNCHANGED <<storage, edits, committed, thumbIn, thumbOut>>

\* a comparison that accepts every prefix of the secret
VerifyPrefix(candidate) == candidate \in {"", "0", "08", "081", "0818"}

\* line 164: passInput === '0818'
Verify(candidate) == candidate = Secret

handlePasswordSubmit ==
  /\ Locked
  /\ IF Verify(passInput)
     THEN Update(data, editingData, heap, pending, isAdminOpen, TRUE, passInput)
     ELSE Update(data, editingData, heap, pending, isAdminOpen, isAuth, "")
  /\ lastOp' = "verify"
  /\ UNCHANGED <<storage, edits, committed, thumbIn, thumbOut>>

\* a close that forgets setIsAuth(false)
closeAdminKeepAuth ==
  /\ pc = "running"
  /\ isAdminOpen
  /\ Update(data, editingData, heap, MarkStale(pending), FALSE, isAuth, "")
  /\ lastOp' = "close"
  /\ UNCHANGED <<storage, edits, committed, thumbIn, thumbOut>>

\* lines 172-176
closeAdmin ==
  /\ pc = "running"
  /\ isAdminOpen
  /\ Update(data, editingData, heap, MarkStale(pending), FALSE, FALSE, "")
  /\ lastOp' = "close"
  /\ UNCHANGED <<storage, edits, committed, thumbIn, thumbOut>>

-----------------------------------------------------------------------------
(* The edit session: field mutators *)

\* line 480: {...editingData, profileImg: e.target.value}
setProfileImage(e, v) == [e EXCEPT !.profileImg = v]

\* line 493: {...editingData, bio: e.target.value}
setBio(e, v) == [e EXCEPT !.bio = v]

\* lines 505-506, 549-550: the array is copied, the item object is not:
\* newC[idx].date = v writes into the object every holder of it shares
assignField(h, ref, field, v) == [h EXCEPT ![ref] = [@ EXCEPT ![field] = v]]

\* [...editingData.career] / [...editingData.works]: a new array of the same objects
copyArray(arr) == [i \in 1..Len(arr) |-> arr[i]]

profileOnChange ==
  /\ Unlocked
  /\ edits < MaxEdits
  /\ Update(data, setProfileImage(editingData, EditUrl), heap, pending,
            isAdminOpen, isAuth, passInput)
  /\ edits' = edits + 1
  /\ lastOp' = "setProfileImage"
  /\ UNCHANGED <<storage, committed, thumbIn, thumbOut>>

bioOnChange ==
  /\ Unlocked
  /\ edits < MaxEdits
  /\ Update(data, setBio(editingData, EditText), heap, pending,
            isAdminOpen, isAuth, passInput)
  /\ edits' = edits + 1
  /\ lastOp' = "setBio"
  /\ UNCHANGED <<storage, committed, thumbIn, thumbOut>>

careerOnChange ==
  /\ Unlocked
  /\ edits < MaxEdits
  /\ \E idx \in EditIdx(editingData.career), field \in {"date", "title", "role"} :
       LET newC == copyArray(editingData.career)
           h2 == assignField(heap, newC[idx], field, EditText)
       IN Update(data, [editingData EXCEPT !.career = newC], h2, pending,
                 isAdminOpen, isAuth, passInput)
  /\ edits' = edits + 1
  /\ lastOp' = "updateCareerItem"
  /\ UNCHANGED <<storage, committed, thumbIn, thumbOut>>

workOnChange ==
  /\ Unlocked
  /\ edits < MaxEdits
  /\ \E idx \in EditIdx(editingData.works), field \in {"title", "img", "url"} :
       LET newW == copyArray(editingData.works)
           v == IF field = "title" THEN EditText ELSE EditUrl
           h2 == assignField(heap, newW[idx], field, v)
       IN Update(data, [editingData EXCEPT !.works = newW], h2, pending,
                 isAdminOpen, isAuth, passInput)
  /\ edits' = edits + 1
  /\ lastOp' = "updateWorkField"
  /\ UNCHANGED <<storage, committed, thumbIn, thumbOut>>

\* a new entry without the title text
newWorkUntitled(now) == [id |-> now, title |-> "", img |-> "", url |-> ""]

\* line 529: the object CREATE NEW ENTRY appends
newWork(now) == [id |-> now, title |-> "New Archive", img |-> "", url |-> ""]

addWorkWithin(limit) ==
  /\ Unlocked
  /\ edits < limit
  /\ \E now \in Clock :
       LET r == FreshRefs(DOMAIN heap, 1)[1]
           h2 == (r :> newWork(now)) @@ heap
           newWorks == Append(editingData.works, r)
       IN Update(data, [editingData EXCEPT !.works = newWorks], h2, pending,
                 isAdminOpen, isAuth, passInput)
  /\ edits' = edits + 1
  /\ lastOp' = "addWork"
  /\ UNCHANGED <<storage, committed, thumbIn, thumbOut>>

addWork == addWorkWithin(MaxEdits)

\* line 542: editingData.works.filter((_, i) => i !== idx)
RECURSIVE filterIndex(_, _, _)
filterIndex(arr, idx, i) ==
  IF i > Len(arr) THEN <<>>
  ELSE (IF i # idx THEN <<arr[i]>> ELSE <<>>) \o filterIndex(arr, idx, i + 1)

purge(works, idx) == filterIndex(works, idx, 1)

removeWorkWithin(limit) ==
  /\ Unlocked
  /\ edits < limit
  /\ \E idx \in 1..Len(editingData.works) :
       Update(data, [editingData EXCEPT !.works = purge(editingData.works, idx)],
              heap, pending, isAdminOpen, isAuth, passInput)
  /\ edits' = edits + 1
  /\ lastOp' = "removeWork"
  /\ UNCHANGED <<storage, committed, thumbIn, thumbOut>>

removeWork == removeWorkWithin(MaxEdits)

-----------------------------------------------------------------------------
(* File upload: readAsDataURL completes later, in reader.onloadend *)

ProfileTarget == [type |-> "profile", id |-> 0]
WorkTarget(id) == [type |-> "work", id |-> id]

\* lines 178-195, up to reader.readAsDataURL(file), for a chosen file (without
\* one the handler returns at once): the closure keeps the editingData of the
\* render in which the file was chosen
handleFileUpload ==
  /\ Unlocked
  /\ edits < MaxEdits
  /\ Cardinality(pending) < MaxPending
  /\ \E target \in {ProfileTarget} \cup
           {WorkTarget(heap[editingData.works[i]].id) : i \in EditIdx(editingData.works)} :
       Update(data, editingData, heap,
              pending \cup {[captured |-> editingData, target |-> target, live |-> TRUE]},
              isAdminOpen, isAuth, passInput)
  /\ edits' = edits + 1
  /\ lastOp' = "upload"
  /\ UNCHANGED <<storage, committed, thumbIn, thumbOut>>

\* lines 188-190: works.map(w => w.id === target.id ? {...w, img: base64} : w);
\* every matching item is replaced by a new object, the others are kept
mapImg(h, works, id, base64) ==
  LET hits == {i \in 1..Len(works) : h[works[i]].id = id}
      fresh == FreshRefs(DOMAIN h, Cardinality(hits))
      rank(i) == Cardinality({j \in hits : j <= i})
      newWorks == [i \in 1..Len(works) |->
                     IF i \in hits THEN fresh[rank(i)] ELSE works[i]]
      h2 == [r \in DOMAIN h \cup Range(fresh) |->
               IF r \in DOMAIN h THEN h[r]
               ELSE LET i == CHOOSE j \in hits : fresh[rank(j)] = r
                    IN [h[works[i]] EXCEPT !.img = base64]]
  IN [works |-> newWorks, heap |-> h2]

\* lines 183-193: the working value the completion sets
onloadendResult(h, u, base64) ==
  IF u.target.type = "profile"
  THEN [e |-> [u.captured EXCEPT !.profileImg = base64], heap |-> h]
  ELSE LET m == mapImg(h, u.captured.works, u.target.id, base64)
       IN [e |-> [u.captured EXCEPT !.works = m.works], heap |-> m.heap]

onloadend ==
  /\ pc = "running"
  /\ \E u \in pending, base64 \in {Base64, NULL} :
       LET res == onloadendResult(heap, u, base64)
       IN /\ Update(data, res.e, res.heap, pending \ {u}, isAdminOpen, isAuth, passInput)
          /\ lastOp' = IF u.live
                       THEN (IF base64 = NULL THEN "loadendFailed" ELSE "loadend")
                       ELSE (IF base64 = NULL THEN "lateLoadendFailed" ELSE "lateLoadend")
  /\ UNCHANGED <<storage, edits, committed, thumbIn, thumbOut>>

-----------------------------------------------------------------------------
(* JSON text: a sequence of tokens *)

Punct(c) == [t |-> "punct", s |-> c, n |-> 0]
StrTok(x) == [t |-> "string", s |-> x, n |-> 0]
NumTok(i) == [t |-> "number", s |-> "", n |-> i]
NullTok == [t |-> "null", s |-> "", n |-> 0]

\* JSON.stringify of a string-typed field (which may hold null)
strJSON(x) == IF x = NULL THEN <<NullTok>> ELSE <<StrTok(x)>>

member(key, valueText) == <<StrTok(key), Punct(":")>> \o valueText

RECURSIVE join(_)
join(parts) ==
  IF parts = <<>> THEN <<>>
  ELSE IF Len(parts) = 1 THEN parts[1]
  ELSE parts[1] \o <<Punct(",")>> \o join(Tail(parts))

objectJSON(members) == <<Punct("{")>> \o join(members) \o <<Punct("}")>>
arrayJSON(elements) == <<Punct("[")>> \o join(elements) \o <<Punct("]")>>

careerJSON(c) ==
  objectJSON(<< member("date", strJSON(c.date)),
                member("title", strJSON(c.title)),
                member("role", strJSON(c.role)) >>)

\* a snapshot that leaves the images out
workJSONNoImg(w) ==
  objectJSON(<< member("id", <<NumTok(w.id)>>),
                member("title", strJSON(w.title)),
                member("url", strJSON(w.url)) >>)

workJSON(w) ==
  objectJSON(<< member("id", <<NumTok(w.id)>>),
                member("title", strJSON(w.title)),
                member("img", strJSON(w.img)),
                member("url", strJSON(w.url)) >>)

\* JSON.stringify(newData), line 130; v is the value of newData (references followed)
stringify(v) ==
  objectJSON(<< member("profileImg", strJSON(v.profileImg)),
                member("bio", strJSON(v.bio)),
                member("career", arrayJSON([i \in 1..Len(v.career) |-> careerJSON(v.career[i])])),
                member("works", arrayJSON([i \in 1..Len(v.works) |-> workJSON(v.works[i])])) >>)

ParseFail == [ok |-> FALSE, v |-> JUndefined, i |-> 0]
ParseOk(v, i) == [ok |-> TRUE, v |-> v, i |-> i]

IsPunct(text, i, c) == i <= Len(text) /\ text[i] = Punct(c)

\* JSON.parse, line 119: recursive descent over the text from position i
RECURSIVE parseValue(_, _), parseElements(_, _, _), parseMembers(_, _, _)
parseValue(text, i) ==
  IF i > Len(text) THEN ParseFail
  ELSE LET tok == text[i] IN
       CASE tok.t = "null" -> ParseOk(JNull, i + 1)
         [] tok.t = "string" -> ParseOk(JStr(tok.s), i + 1)
         [] tok.t = "number" -> ParseOk(JNum(tok.n), i + 1)
         [] tok = Punct("[") ->
              IF IsPunct(text, i + 1, "]") THEN ParseOk(JArr(<<>>), i + 2)
              ELSE parseElements(text, i + 1, <<>>)
         [] tok = Punct("{") ->
              IF IsPunct(text, i + 1, "}") THEN ParseOk(JObj(<<>>), i + 2)
              ELSE parseMembers(text, i + 1, <<>>)
         [] OTHER -> ParseFail

parseElements(text, i, acc) ==
  LET r == parseValue(text, i) IN
  IF ~r.ok THEN ParseFail
  ELSE IF IsPunct(text, r.i, ",") THEN parseElements(text, r.i + 1, Append(acc, r.v))
  ELSE IF IsPunct(text, r.i, "]") THEN ParseOk(JArr(Append(acc, r.v)), r.i + 1)
  ELSE ParseFail

parseMembers(text, i, acc) ==
  IF ~(i + 1 <= Len(text) /\ text[i].t = "string" /\ text[i + 1] = Punct(":"))
  THEN ParseFail
  ELSE LET r == parseValue(text, i + 2)
           o == (text[i].s :> r.v) @@ acc
       IN IF ~r.ok THEN ParseFail
          ELSE IF IsPunct(text, r.i, ",") THEN parseMembers(text, r.i + 1, o)
          ELSE IF IsPunct(text, r.i, "}") THEN ParseOk(JObj(o), r.i + 1)
          ELSE ParseFail

\* JSON.parse(saved): the whole text must be one value, else a SyntaxError is thrown
parse(text) ==
  LET r == parseValue(text, 1)
  IN IF r.ok /\ r.i = Len(text) + 1 THEN r ELSE ParseFail

-----------------------------------------------------------------------------
(* The parsed value as state: objects of the SiteData shape go to the heap *)

StrOrNull(v) == v.k \in {"str", "null"}
fromStr(v) == IF v.k = "null" THEN NULL ELSE v.s

HasShape(v, keys) == v.k = "obj" /\ DOMAIN v.o = keys

CareerShaped(v) ==
  /\ HasShape(v, {"date", "title", "role"})
  /\ StrOrNull(v.o.date) /\ StrOrNull(v.o.title) /\ StrOrNull(v.o.role)

WorkShaped(v) ==
  /\ HasShape(v, {"id", "title", "img", "url"})
  /\ v.o.id.k = "num"
  /\ StrOrNull(v.o.title) /\ StrOrNull(v.o.img) /\ StrOrNull(v.o.url)

SiteShaped(v) ==
  /\ HasShape(v, {"profileImg", "bio", "career", "works"})
  /\ StrOrNull(v.o.profileImg) /\ StrOrNull(v.o.bio)
  /\ v.o.career.k = "arr"
  /\ \A i \in 1..Len(v.o.career.a) : CareerShaped(v.o.career.a[i])
  /\ v.o.works.k = "arr"
  /\ \A i \in 1..Len(v.o.works.a) : WorkShaped(v.o.works.a[i])

careerObject(v) ==
  [date |-> fromStr(v.o.date), title |-> fromStr(v.o.title), role |-> fromStr(v.o.role)]

workObject(v) ==
  [id |-> v.o.id.n, title |-> fromStr(v.o.title), img |-> fromStr(v.o.img),
   url |-> fromStr(v.o.url)]

\* the objects JSON.parse creates are all new: none is shared with DEFAULT_DATA
materialize(v, h) ==
  IF SiteShaped(v)
  THEN LET nc == Len(v.o.career.a)
           nw == Len(v.o.works.a)
           fresh == FreshRefs(DOMAIN h, nc + nw)
           cRefs == [i \in 1..nc |-> fresh[i]]
           wRefs == [i \in 1..nw |-> fresh[nc + i]]
       IN [sd |-> [profileImg |-> fromStr(v.o.profileImg),
                   bio |-> fromStr(v.o.bio),
                   career |-> cRefs,
                   works |-> wRefs],
           heap |-> [r \in DOMAIN h \cup Range(fresh) |->
                       IF r \in DOMAIN h THEN h[r]
                       ELSE IF r \in Range(cRefs)
                            THEN careerObject(v.o.career.a[CHOOSE i \in 1..nc : cRefs[i] = r])
                            ELSE workObject(v.o.works.a[CHOOSE i \in 1..nw : wRefs[i] = r])]]
  ELSE [sd |-> [js |-> v], heap |-> h]

-----------------------------------------------------------------------------
(* The content store *)

\* lines 128-135; localStorage.setItem throws when the quota is exceeded, and
\* the statements after it do not run; the setData before it has been queued
saveToLocal ==
  /\ Unlocked
  /\ \E written \in BOOLEAN :
       IF written
       THEN /\ Update(editingData, editingData, heap, MarkStale(pending), FALSE, FALSE, "")
            /\ storage' = stringify(Value(editingData, heap))
            /\ committed' = <<Value(editingData, heap)>>
            /\ lastOp' = "save"
       ELSE /\ Update(editingData, editingData, heap, pending, isAdminOpen, isAuth, passInput)
            /\ storage' = storage
            /\ committed' = committed
            /\ lastOp' = "saveFailed"
  /\ UNCHANGED <<edits, thumbIn, thumbOut>>

\* a reset that does not wait for the answer of window.confirm
resetWithoutConfirm ==
  /\ Unlocked
  /\ \E confirmed \in BOOLEAN :
       /\ Update(DEFAULT_DATA, DEFAULT_DATA, heap, MarkStale(pending), FALSE, FALSE, passInput)
       /\ storage' = Absent
       /\ committed' = <<>>
       /\ lastOp' = IF confirmed THEN "reset" ELSE "resetDeclined"
  /\ UNCHANGED <<edits, thumbIn, thumbOut>>

\* lines 137-146
resetToDefault ==
  /\ Unlocked
  /\ \E confirmed \in BOOLEAN :
       IF confirmed
       THEN /\ Update(DEFAULT_DATA, DEFAULT_DATA, heap, MarkStale(pending), FALSE, FALSE, passInput)
            /\ storage' = Absent
            /\ committed' = <<>>
            /\ lastOp' = "reset"
       ELSE /\ Update(data, editingData, heap, pending, isAdminOpen, isAuth, passInput)
            /\ storage' = storage
            /\ committed' = committed
            /\ lastOp' = "resetDeclined"
  /\ UNCHANGED <<edits, thumbIn, thumbOut>>

\* the page is loaded again: the module is evaluated afresh and App mounts
\* with its initial state (lines 41-57, 108-112); the snapshot survives
reload ==
  /\ pc \in {"running", "crashed"}
  /\ pc' = "boot"
  /\ heap' = DefaultHeap
  /\ data' = DEFAULT_DATA
  /\ editingData' = DEFAULT_DATA
  /\ isAdminOpen' = FALSE
  /\ isAuth' = FALSE
  /\ passInput' = ""
  /\ pending' = {}
  /\ lastOp' = "reload"
  /\ UNCHANGED <<storage, edits, committed, thumbIn, thumbOut>>

\* lines 115-126: the mount effect
load ==
  /\ pc = "boot"
  /\ LET saved == storage
         r == parse(saved)
     IN IF saved # Absent /\ r.ok
        THEN LET m == materialize(r.v, heap)
             IN Update(m.sd, m.sd, m.heap, pending, isAdminOpen, isAuth, passInput)
        ELSE Update(data, editingData, heap, pending, isAdminOpen, isAuth, passInput)
  /\ lastOp' = "load"
  /\ UNCHANGED <<storage, edits, committed, thumbIn, thumbOut>>

-----------------------------------------------------------------------------
(* The thumbnail resolver. Here a string is the sequence of its characters. *)

\* \w of the regular expression
WordChars ==
  {"a", "b", "c", "d", "e", "f", "g", "h", "i", "j", "k", "l", "m", "n", "o", "p",
   "q", "r", "s", "t", "u", "v", "w", "x", "y", "z", "A", "B", "C", "D", "E", "F",
   "G", "H", "I", "J", "K", "L", "M", "N", "O", "P", "Q", "R", "S", "T", "U", "V",
   "W", "X", "Y", "Z", "0", "1", "2", "3", "4", "5", "6", "7", "8", "9", "_"}
\* what "." does not match
LineTerminators == {"\n", "\r"}
\* what [^#&?] does not match
IdStops == {"#", "&", "?"}

\* the literal alternatives of the first group, in the order of line 28
Alt_youtu == <<"y", "o", "u", "t", "u">>
Alt_be == <<"b", "e", "/">>
Alt_v == <<"v", "/">>
Alt_embed == <<"e", "m", "b", "e", "d", "/">>
Alt_watch == <<"w", "a", "t", "c", "h", "?", "v", "=">>
Alt_ampv == <<"&", "v", "=">>

StartsAt(url, p, lit) ==
  /\ p + Len(lit) - 1 <= Len(url)
  /\ \A i \in 1..Len(lit) : url[p + i - 1] = lit[i]

\* (youtu.be\/|v\/|u\/\w\/|embed\/|watch\?v=|&v=) tried at position p, in order:
\* the length the first matching alternative consumes, 0 when none matches
groupOneAt(url, p) ==
  IF /\ StartsAt(url, p, Alt_youtu)
     /\ p + 5 <= Len(url) /\ url[p + 5] \notin LineTerminators
     /\ StartsAt(url, p + 6, Alt_be)
  THEN 9
  ELSE IF StartsAt(url, p, Alt_v) THEN 2
  ELSE IF /\ p + 3 <= Len(url)
          /\ url[p] = "u" /\ url[p + 1] = "/"
          /\ url[p + 2] \in WordChars /\ url[p + 3] = "/"
  THEN 4
  ELSE IF StartsAt(url, p, Alt_embed) THEN 6
  ELSE IF StartsAt(url, p, Alt_watch) THEN 8
  ELSE IF StartsAt(url, p, Alt_ampv) THEN 3
  ELSE 0

\* ([^#&?]*) from position p: greedy, stops at the first of # & ?
RECURSIVE groupTwoFrom(_, _)
groupTwoFrom(url, p) ==
  IF p > Len(url) \/ url[p] \in IdStops THEN <<>>
  ELSE <<url[p]>> \o groupTwoFrom(url, p + 1)

\* how far ^.* can reach: the characters before the first line terminator
RECURSIVE dotRun(_, _)
dotRun(url, n) ==
  IF n < Len(url) /\ url[n + 1] \notin LineTerminators THEN dotRun(url, n + 1) ELSE n

NoMatch == [matched |-> FALSE, g2 |-> <<>>]

\* url.match(regExp): ^.* takes k characters, the longest k first, and gives
\* characters back until the first group matches; the rest cannot fail
RECURSIVE backtrack(_, _)
backtrack(url, k) ==
  IF k < 0 THEN NoMatch
  ELSE LET n == groupOneAt(url, k + 1)
       IN IF n > 0 THEN [matched |-> TRUE, g2 |-> groupTwoFrom(url, k + 1 + n)]
          ELSE backtrack(url, k - 1)

match(url) == backtrack(url, dotRun(url, 0))

\* the length an identifier must have (line 30)
IdLength == 11

\* an extraction that accepts an identifier of any length
getYoutubeIdAnyLength(url) ==
  LET m == match(url)
  IN IF m.matched THEN m.g2 ELSE <<>>

\* lines 27-31; <<>> stands for the null the function returns
getYoutubeId(url) ==
  LET m == match(url)
  IN IF m.matched /\ Len(m.g2) = IdLength THEN m.g2 ELSE <<>>

ThumbPrefix == <<"h", "t", "t", "p", "s", ":", "/", "/", "i", "m", "g", ".", "y", "o", "u", "t", "u", "b", "e", ".", "c", "o", "m", "/", "v", "i", "/">>
ThumbSuffix == <<"/", "m", "a", "x", "r", "e", "s", "d", "e", "f", "a", "u", "l", "t", ".", "j", "p", "g">>
Placeholder == <<"h", "t", "t", "p", "s", ":", "/", "/", "p", "l", "a", "c", "e", "h", "o", "l", "d", ".", "c", "o", "/", "6", "0", "0", "x", "4", "0", "0", "/", "1", "1", "1", "/", "3", "3", "3", "?", "t", "e", "x", "t", "=", "N", "O", "+", "I", "M", "A", "G", "E">>

\* lines 33-38
getThumbnail(work) ==
  IF work.img # <<>> THEN work.img
  ELSE LET ytId == getYoutubeId(work.url)
       IN IF ytId # <<>> THEN ThumbPrefix \o ytId \o ThumbSuffix
          ELSE Placeholder

\* line 388: the gallery resolves the thumbnail of a work it renders
resolve ==
  /\ pc = "thumb"
  /\ thumbOut' = getThumbnail(thumbIn)
  /\ pc' = "thumbDone"
  /\ lastOp' = "resolve"
  /\ UNCHANGED <<storage, heap, data, editingData, isAdminOpen, isAuth, passInput,
                 pending, edits, committed, thumbIn>>

\* the work items the resolver is run on
UrlHeads == {<<>>, <<"h", "t", "t", "p", "s", ":", "/", "/", "w", "w", "w", ".", "y", "o", "u", "t", "u", "b", "e", ".", "c", "o", "m", "/">>, <<"x", "\n">>}
UrlShapes ==
  {<<>>, <<"y", "o", "u", "t", "u", ".", "b", "e", "/">>,
   <<"y", "o", "u", "t", "u", "_", "b", "e", "/">>,
   <<"v", "/">>,
   <<"u", "/", "a", "/">>,
   <<"u", "/", "-", "/">>,
   <<"e", "m", "b", "e", "d", "/">>,
   <<"w", "a", "t", "c", "h", "?", "v", "=">>,
   <<"&", "v", "=">>,
   <<"w", "a", "t", "c", "h", "?", "x", "=">>}
UrlIds ==
  {<<>>, <<"a", "q", "z", "-", "K", "E", "-", "b", "p", "K">>,
   <<"a", "q", "z", "-", "K", "E", "-", "b", "p", "K", "Q">>,
   <<"d", "Q", "w", "4", "w", "9", "W", "g", "X", "c", "Q">>,
   <<"a", "q", "z", "-", "K", "E", "-", "b", "p", "K", "Q", "1">>}
UrlTails == {<<>>, <<"&", "t", "=", "1">>, <<"#", "t">>, <<"?", "a", "=", "1">>, <<"&", "v", "=", "a", "b", "c">>, <<"/", "x">>}
Urls == {h \o m \o i \o t : h \in UrlHeads, m \in UrlShapes, i \in UrlIds, t \in UrlTails}
Imgs == {<<>>, <<"X">>, <<"d", "a", "t", "a", ":", "x">>}
ThumbWorks ==
  {[id |-> i, title |-> t, img |-> g, url |-> u] :
     i \in {1, ClockBase}, t \in {"Visual Archive_1", "New Archive"}, g \in Imgs, u \in Urls}

-----------------------------------------------------------------------------

Init ==
  /\ pc = "boot"
  /\ storage = Absent
  /\ heap = DefaultHeap
  /\ data = DEFAULT_DATA
  /\ editingData = DEFAULT_DATA
  /\ isAdminOpen = FALSE
  /\ isAuth = FALSE
  /\ passInput = ""
  /\ pending = {}
  /\ edits = 0
  /\ lastOp = "init"
  /\ committed = <<>>
  /\ thumbIn = None
  /\ thumbOut = <<>>

Next ==
  \/ handleAdminTrigger
  \/ setPassInput
  \/ handlePasswordSubmit
  \/ closeAdmin
  \/ profileOnChange
  \/ bioOnChange
  \/ careerOnChange
  \/ workOnChange
  \/ addWork
  \/ removeWork
  \/ handleFileUpload
  \/ onloadend
  \/ saveToLocal
  \/ resetToDefault
  \/ reload
  \/ load

Spec == Init /\ [][Next]_vars

\* the resolver alone, on every work item of ThumbWorks
InitThumb ==
  /\ pc = "thumb"
  /\ storage = Absent
  /\ heap = DefaultHeap
  /\ data = DEFAULT_DATA
  /\ editingData = DEFAULT_DATA
  /\ isAdminOpen = FALSE
  /\ isAuth = FALSE
  /\ passInput = ""
  /\ pending = {}
  /\ edits = 0
  /\ lastOp = "init"
  /\ committed = <<>>
  /\ thumbIn \in ThumbWorks
  /\ thumbOut = <<>>

NextThumb == resolve

SpecThumb == InitThumb /\ [][NextThumb]_vars

\* one edit session in which only the works list is edited
NextWorks ==
  \/ load
  \/ handleAdminTrigger
  \/ setPassInput
  \/ handlePasswordSubmit
  \/ addWorkWithin(MaxListEdits)
  \/ removeWorkWithin(MaxListEdits)

SpecWorks == Init /\ [][NextWorks]_vars

\* startup on whatever text the snapshot holds
TextTokens ==
  {Punct("{"), Punct("}"), Punct("["), Punct("]"), Punct(","), Punct(":"),
   NullTok, StrTok("bio"), NumTok(7)}

ShortTexts == UNION {[1..n -> TextTokens] : n \in 0..MaxTextLen}

\* {"bio":"edited"}
TextBioOnly == objectJSON(<<member("bio", <<StrTok(EditText)>>)>>)
\* {"career":[],"works":[]}
TextListsOnly ==
  objectJSON(<<member("career", arrayJSON(<<>>)), member("works", arrayJSON(<<>>))>>)

LoadTexts ==
  ShortTexts \cup
  {TextBioOnly, TextListsOnly,
   stringify(Value(DEFAULT_DATA, DefaultHeap)),
   stringify(Value(setBio(DEFAULT_DATA, EditText), DefaultHeap))}

InitLoad ==
  /\ pc = "boot"
  /\ storage \in LoadTexts
  /\ heap = DefaultHeap
  /\ data = DEFAULT_DATA
  /\ editingData = DEFAULT_DATA
  /\ isAdminOpen = FALSE
  /\ isAuth = FALSE
  /\ passInput = ""
  /\ pending = {}
  /\ edits = 0
  /\ lastOp = "init"
  /\ committed = <<>>
  /\ thumbIn = None
  /\ thumbOut = <<>>

NextLoad == load

SpecLoad == InitLoad /\ [][NextLoad]_vars

-----------------------------------------------------------------------------
(* Properties *)

DataValue == Value(data, heap)
WorkingValue == Value(editingData, heap)
\* DEFAULT_DATA as written in the source
DefaultValue == Value(DEFAULT_DATA, DefaultHeap)

Ids(works) == [i \in 1..Len(works) |-> works[i].id]
Distinct(seq) == \A i, j \in 1..Len(seq) : i # j => seq[i] # seq[j]

\* C1: cancel isolation: the committed data changes, by value, only in a commit
\* (saveToLocal), a confirmed reset or a (re)start of the page; no edit-session
\* mutation, trigger, verify or cancel changes it.
CancelIsolation ==
  [][lastOp' \notin {"save", "saveFailed", "reset", "reload", "load"}
       => DataValue' = DataValue]_vars

\* C2: late ingestion is discarded: the completion of a read that was started in
\* a session that has since been committed, cancelled, reset or replaced
\* changes neither the working value of the session now open nor the committed data.
LateIngestionDiscarded ==
  [][(lastOp' \in {"lateLoadend", "lateLoadendFailed"} /\ isAdminOpen)
       => (WorkingValue' = WorkingValue /\ DataValue' = DataValue)]_vars

\* C3: commit atomicity: when the write of the snapshot fails during a commit,
\* the committed data stays the previously committed value.
CommitAtomic ==
  [][lastOp' = "saveFailed" => DataValue' = DataValue]_vars

\* C4: round trip: after a commit of S whose write succeeded, the next load at
\* startup yields committed data structurally equal to S.
RoundTrip ==
  (lastOp = "load" /\ committed # <<>>) => DataValue = committed[1]

\* a value other than the default was committed, the page restarted and loaded it
RoundTripWitness ==
  /\ lastOp = "load"
  /\ committed # <<>>
  /\ DataValue = committed[1]
  /\ DataValue # DefaultValue
  /\ storage # Absent

\* C5: reset: right after a confirmed reset the committed data equals the
\* built-in default constant as written and the snapshot is absent.
ResetRestoresDefault ==
  lastOp = "reset" => (DataValue = DefaultValue /\ storage = Absent)

\* C6: unique ids: the ids within works are pairwise distinct in the working
\* copy and in the committed data.
UniqueIds ==
  pc = "running" =>
    (Distinct(Ids(WorkingValue.works)) /\ Distinct(Ids(DataValue.works)))

\* C7: auth correctness: a submission unlocks exactly when the candidate is
\* "0818"; any other candidate keeps the gate locked, clears the input and
\* changes neither the working copy nor the committed data.
AuthCorrectness ==
  [][lastOp' = "verify" =>
       /\ ~isAuth
       /\ isAuth' <=> (passInput = "0818")
       /\ isAdminOpen'
       /\ (passInput # "0818") =>
            (passInput' = "" /\ WorkingValue' = WorkingValue /\ DataValue' = DataValue)]_vars

\* a rejected submission: the gate is still locked and the input is empty again
AuthWitness ==
  lastOp = "verify" /\ isAdminOpen /\ ~isAuth /\ passInput = ""

\* the entry at position i deleted, everything else kept in order
DeleteAt(seq, i) == SubSeq(seq, 1, i - 1) \o SubSeq(seq, i + 1, Len(seq))

\* C8: removal correctness: removeWork(i) yields the list with exactly the entry
\* at position i deleted, one shorter, the other entries unchanged and in
\* order, and the id of the removed entry no longer occurs in the list.
RemovalCorrectness ==
  [][lastOp' = "removeWork" =>
       \E i \in 1..Len(WorkingValue.works) :
         /\ WorkingValue'.works = DeleteAt(WorkingValue.works, i)
         /\ Len(WorkingValue'.works) = Len(WorkingValue.works) - 1
         /\ \A j \in 1..Len(WorkingValue'.works) :
              WorkingValue'.works[j].id # WorkingValue.works[i].id]_vars

\* what C8 says of the list itself, without the clause about the removed id
RemovalDeletesOne ==
  [][lastOp' = "removeWork" =>
       \E i \in 1..Len(WorkingValue.works) :
         /\ WorkingValue'.works = DeleteAt(WorkingValue.works, i)
         /\ editingData'.works = DeleteAt(editingData.works, i)
         /\ Len(WorkingValue'.works) = Len(WorkingValue.works) - 1]_vars

\* the URL shapes of line 28, as literals
ShapeLiterals == {<<"v", "/">>, <<"e", "m", "b", "e", "d", "/">>, <<"w", "a", "t", "c", "h", "?", "v", "=">>, <<"&", "v", "=">>}

\* the length of the shape that starts at position p of url, 0 if none does
ShapeAt(url, p) ==
  LET rest == SubSeq(url, p, Len(url))
      lits == {l \in ShapeLiterals : Len(l) <= Len(rest) /\ SubSeq(rest, 1, Len(l)) = l}
  IN IF lits # {} THEN Len(CHOOSE l \in lits : TRUE)
     ELSE IF /\ Len(rest) >= 9
             /\ SubSeq(rest, 1, 5) = <<"y", "o", "u", "t", "u">>
             /\ rest[6] \notin {"\n", "\r"}
             /\ SubSeq(rest, 7, 9) = <<"b", "e", "/">>
          THEN 9
     ELSE IF /\ Len(rest) >= 4
             /\ rest[1] = "u" /\ rest[2] = "/" /\ rest[3] \in WordChars /\ rest[4] = "/"
          THEN 4
     ELSE 0

\* the identifier of url: what follows the last shape on the first line of
\* url, up to the next # & ? or the end; <<>> when url has no shape
IdentifierOf(url) ==
  LET occ == {p \in 1..Len(url) :
                /\ ShapeAt(url, p) > 0
                /\ \A q \in 1..(p - 1) : url[q] \notin {"\n", "\r"}}
  IN IF occ = {} THEN [found |-> FALSE, id |-> <<>>]
     ELSE LET p == CHOOSE x \in occ : \A y \in occ : y <= x
              from == p + ShapeAt(url, p)
              stops == {q \in from..Len(url) : url[q] \in {"#", "&", "?"}}
              to == IF stops = {} THEN Len(url)
                    ELSE (CHOOSE x \in stops : \A y \in stops : x <= y) - 1
          IN [found |-> TRUE, id |-> SubSeq(url, from, to)]

SpecExampleUrl == <<"h", "t", "t", "p", "s", ":", "/", "/", "w", "w", "w", ".", "y", "o", "u", "t", "u", "b", "e", ".", "c", "o", "m", "/", "w", "a", "t", "c", "h", "?", "v", "=", "a", "q", "z", "-", "K", "E", "-", "b", "p", "K", "Q">>
SpecExampleThumb == <<"h", "t", "t", "p", "s", ":", "/", "/", "i", "m", "g", ".", "y", "o", "u", "t", "u", "b", "e", ".", "c", "o", "m", "/", "v", "i", "/", "a", "q", "z", "-", "K", "E", "-", "b", "p", "K", "Q", "/", "m", "a", "x", "r", "e", "s", "d", "e", "f", "a", "u", "l", "t", ".", "j", "p", "g">>

\* C9: thumbnail fallback chain: a non-empty img is returned verbatim; otherwise
\* a url with a known shape whose identifier has exactly 11 characters gives
\* the canonical thumbnail URL of that identifier; otherwise the placeholder is
\* returned. Only img and url decide the result.
ThumbnailChain ==
  pc = "thumbDone" =>
    LET x == IdentifierOf(thumbIn.url) IN
    /\ thumbIn.img # <<>> => thumbOut = thumbIn.img
    /\ (thumbIn.img = <<>> /\ x.found /\ Len(x.id) = 11) =>
         thumbOut = ThumbPrefix \o x.id \o ThumbSuffix
    /\ (thumbIn.img = <<>> /\ ~(x.found /\ Len(x.id) = 11)) => thumbOut = Placeholder
    /\ (thumbIn.img = <<>> /\ thumbIn.url = SpecExampleUrl) => thumbOut = SpecExampleThumb
    /\ (thumbIn.img = <<>> /\ thumbIn.url = <<>>) => thumbOut = Placeholder

\* the example of the specification: no img, a watch URL, the thumbnail of its identifier
ThumbnailWitness ==
  /\ pc = "thumbDone"
  /\ thumbIn.img = <<>>
  /\ thumbIn.url = SpecExampleUrl
  /\ thumbOut = SpecExampleThumb

WellFormed(d, h) ==
  /\ IsSite(d)
  /\ d.profileImg # NULL /\ d.bio # NULL
  /\ \A i \in 1..Len(d.career) :
       LET c == h[d.career[i]] IN c.date # NULL /\ c.title # NULL /\ c.role # NULL
  /\ \A i \in 1..Len(d.works) :
       LET w == h[d.works[i]] IN w.title # NULL /\ w.img # NULL /\ w.url # NULL

\* the text parses to a SiteData value
ValidSnapshot(text) ==
  /\ parse(text).ok
  /\ SiteShaped(parse(text).v)
  /\ WellFormed(materialize(parse(text).v, DefaultHeap).sd,
                materialize(parse(text).v, DefaultHeap).heap)

\* C10: load fallback: after the load at startup the application has not
\* failed and the committed data is a well-formed SiteData; it is the default
\* constant when the snapshot is absent or is not the text of a SiteData.
LoadFallback ==
  lastOp = "load" =>
    /\ pc # "crashed"
    /\ WellFormed(data, heap)
    /\ (storage = Absent \/ ~ValidSnapshot(storage)) => DataValue = DefaultValue

\* the image fields a read aims at: profileImg, or the img of every work with the id
TargetField(v, target) ==
  IF target.type = "profile" THEN <<v.profileImg>>
  ELSE [i \in 1..Len(v.works) |->
          IF v.works[i].id = target.id THEN v.works[i].img ELSE ""]

\* no string field of the value holds null
NoNull(v) ==
  /\ v.profileImg # NULL /\ v.bio # NULL
  /\ \A i \in 1..Len(v.career) :
       v.career[i].date # NULL /\ v.career[i].title # NULL /\ v.career[i].role # NULL
  /\ \A i \in 1..Len(v.works) :
       v.works[i].title # NULL /\ v.works[i].img # NULL /\ v.works[i].url # NULL

\* C11: ingestion failure: when a read ends in failure (reader.result is null)
\* the targeted image field of the working copy keeps its previous value, and
\* neither the working copy nor the committed data holds a null afterwards.
IngestionFailure ==
  [][lastOp' \in {"loadendFailed", "lateLoadendFailed"} =>
       /\ \A u \in pending \ pending' :
            TargetField(WorkingValue', u.target) = TargetField(WorkingValue, u.target)
       /\ NoNull(WorkingValue')
       /\ NoNull(DataValue')]_vars

\* the state of the gate, read off isAdminOpen and isAuth
Gate ==
  IF ~isAdminOpen /\ ~isAuth THEN "Closed"
  ELSE IF isAdminOpen /\ ~isAuth THEN "Locked"
  ELSE IF isAdminOpen /\ isAuth THEN "Unlocked"
  ELSE "none"

\* the handlers that mutate the working copy, request an upload, commit or reset
SessionOps ==
  {"setProfileImage", "setBio", "updateCareerItem", "updateWorkField", "addWork",
   "removeWork", "upload", "save", "saveFailed", "reset", "resetDeclined"}

\* C12: gate state machine: the gate is always Closed, Locked or Unlocked; within
\* a run of the page it changes only from Closed to Locked by the admin trigger,
\* from Locked to Unlocked by a verify of the exact secret, and to Closed by a
\* commit, a cancel/exit or a confirmed reset; the trigger, a commit whose write
\* succeeded, a cancel and a confirmed reset do make their transition; and the
\* edit mutations, the upload request, commit and reset run only in Unlocked.
GateStateMachine ==
  [][lastOp' # "reload" =>
       /\ Gate # "none" /\ Gate' # "none"
       /\ Gate' # Gate =>
            \/ Gate = "Closed" /\ Gate' = "Locked" /\ lastOp' = "trigger"
            \/ Gate = "Locked" /\ Gate' = "Unlocked" /\ lastOp' = "verify" /\ passInput = "0818"
            \/ Gate' = "Closed" /\ lastOp' \in {"save", "close", "reset"}
       /\ lastOp' = "trigger" => (Gate = "Closed" /\ Gate' = "Locked")
       /\ (lastOp' = "verify" /\ passInput = "0818") => (Gate = "Locked" /\ Gate' = "Unlocked")
       /\ lastOp' \in {"save", "close", "reset"} => Gate' = "Closed"
       /\ lastOp' \in SessionOps => Gate = "Unlocked"]_vars

\* a whole cycle: opened, unlocked, edited, committed, and the gate is Closed again
GateWitness ==
  /\ lastOp = "save"
  /\ Gate = "Closed"
  /\ edits > 0
  /\ committed # <<>>

\* C13: reset requires confirmation: a declined reset changes nothing (snapshot,
\* committed data, working copy, gate, key input and reads in flight stay as
\* they are), and the snapshot is deleted only by a confirmed reset.
ResetNeedsConfirmation ==
  [][/\ lastOp' = "resetDeclined" =>
          /\ storage' = storage
          /\ data' = data /\ DataValue' = DataValue
          /\ editingData' = editingData /\ WorkingValue' = WorkingValue
          /\ isAdminOpen' = isAdminOpen /\ isAuth' = isAuth /\ passInput' = passInput
          /\ pending' = pending /\ pc' = pc
     /\ (storage # Absent /\ storage' = Absent) => lastOp' = "reset"
     /\ lastOp' = "reset" => (storage' = Absent /\ data' = DEFAULT_DATA)]_vars

\* a reset was declined while a snapshot existed and the session had unsaved edits
ResetDeclinedWitness ==
  /\ lastOp = "resetDeclined"
  /\ storage # Absent
  /\ WorkingValue # DataValue
  /\ isAdminOpen /\ isAuth

\* what addWork does apart from the title it gives the new entry: one entry is
\* appended at the end, with empty img and empty url; the existing entries and
\* every other field of the working value are equal by value to what they were
AppendsOne(before, after) ==
  /\ Len(after.works) = Len(before.works) + 1
  /\ SubSeq(after.works, 1, Len(before.works)) = before.works
  /\ after.works[Len(after.works)].img = ""
  /\ after.works[Len(after.works)].url = ""
  /\ after.profileImg = before.profileImg
  /\ after.bio = before.bio
  /\ after.career = before.career

\* C14 (as stated): addWork appends exactly one WorkItem at the end of the
\* working works list, with empty title, empty img and empty url, and leaves
\* every existing entry and all other SiteData fields unchanged.
AddWorkShapeEmptyTitle ==
  [][lastOp' = "addWork" =>
       /\ AppendsOne(WorkingValue, WorkingValue')
       /\ WorkingValue'.works[Len(WorkingValue'.works)].title = ""]_vars

\* C14 (amended): addWork appends exactly one WorkItem at the end of the working
\* works list, with the title "New Archive", empty img and empty url, and leaves
\* every existing entry and all other SiteData fields unchanged.
AddWorkShape ==
  [][lastOp' = "addWork" =>
       /\ AppendsOne(WorkingValue, WorkingValue')
       /\ WorkingValue'.works[Len(WorkingValue'.works)].title = "New Archive"
       /\ SubSeq(editingData'.works, 1, Len(editingData.works)) = editingData.works]_vars

\* an entry was just appended to the six default works
AddWorkWitness ==
  /\ lastOp = "addWork"
  /\ Len(WorkingValue.works) = Len(DefaultWorks) + 1
  /\ WorkingValue.works[Len(WorkingValue.works)].title = "New Archive"
  /\ SubSeq(WorkingValue.works, 1, Len(DefaultWorks)) = DefaultWorks

\* the labels of the four field mutators
FieldMutators == {"setProfileImage", "setBio", "updateCareerItem", "updateWorkField"}

\* after differs from before in one targeted field at most, set to a typed value
OneFieldSet(before, after) ==
  \/ after = [before EXCEPT !.profileImg = EditUrl]
  \/ after = [before EXCEPT !.bio = EditText]
  \/ \E idx \in 1..Len(before.career), field \in {"date", "title", "role"} :
       after = [before EXCEPT !.career[idx][field] = EditText]
  \/ \E idx \in 1..Len(before.works), field \in {"title", "img", "url"}, v \in {EditText, EditUrl} :
       after = [before EXCEPT !.works[idx][field] = v]

\* C15: field mutators frame: setProfileImage, setBio, updateCareerItem and
\* updateWorkField with an in-bounds index yield a working value that differs
\* from the previous one in exactly the targeted field, and the call changes no
\* value held before it: not the earlier working value, not the committed
\* data, not the default constant.
FieldMutatorsFrame ==
  [][lastOp' \in FieldMutators =>
       /\ OneFieldSet(WorkingValue, WorkingValue')
       /\ Value(editingData, heap') = Value(editingData, heap)
       /\ Value(data, heap') = Value(data, heap)
       /\ Value(DEFAULT_DATA, heap') = Value(DEFAULT_DATA, heap)]_vars

\* what C15 says of the new working value alone
FieldMutatorsTarget ==
  [][lastOp' \in FieldMutators => OneFieldSet(WorkingValue, WorkingValue')]_vars

\* v with only the image field the read aims at replaced by the encoding
WithImage(v, target, base64) ==
  IF target.type = "profile" THEN [v EXCEPT !.profileImg = base64]
  ELSE [v EXCEPT !.works =
          [i \in 1..Len(v.works) |->
             IF v.works[i].id = target.id
             THEN [v.works[i] EXCEPT !.img = base64]
             ELSE v.works[i]]]

\* C17: no lost edits on in-session ingestion: when a read completes with its
\* encoding while the session that requested it is still the live one, the new
\* working value is the working value current at completion with only the
\* targeted image field replaced: edits made since the request are kept and a
\* work removed since does not reappear.
NoLostEdits ==
  [][lastOp' = "loadend" =>
       \A u \in pending \ pending' :
         WorkingValue' = WithImage(WorkingValue, u.target, Base64)]_vars

====
